---- MODULE Spec2Model ----
(***************************************************************************)
(* State-machine model of the doctor routes (src/routes/doctor.js) and of  *)
(* the application entry file (src/unnamed/part_000): doctor registration, *)
(* login, the session gate, profile routes, appointment confirmation,      *)
(* logout and the admin login.                                             *)
(*                                                                         *)
(* Every handler is one action, except POST /register, which is split at   *)
(* its await points (findOne, then hash + create) because two requests can *)
(* interleave there.  A store call either completes or rejects; that is an *)
(* input of the action (up = FALSE: the call rejects).                     *)
(*                                                                         *)
(* The routes are explored as four subsystems, each a specification over   *)
(* the same variables and actions:                                         *)
(*   SpecRegister  registration requests and the admin login, from the     *)
(*                 empty collections;                                      *)
(*   SpecLogin     admin approval, login and logout, from a collection of  *)
(*                 freshly registered doctors;                             *)
(*   SpecGate      the session gate and the routes behind it, from a       *)
(*                 collection of approved doctors and one appointment;     *)
(*   SpecConfirm   booking and confirmation of appointments, from a        *)
(*                 collection of approved doctors.                         *)
(***************************************************************************)
EXTENDS Integers, Sequences, FiniteSets, TLC

VARIABLES doctors, appts, sessions, reg, req, res, mail

vars == <<doctors, appts, sessions, reg, req, res, mail>>

-----------------------------------------------------------------------------
(* Bounds of the model *)

MaxAppts == 1
NumSessions == 1
NumRegs == 2

-----------------------------------------------------------------------------
(* Input values.  Undefined stands for a field missing from the body.      *)

Undefined == "undefined"
Emails == {"a@x.com", "b@x.com"}
Passwords == {"p", "q"}
Codes == {"D1", "D2"}
Profiles == {"A"}
LoginEmails == Emails \cup {"nobody@x.com"}
TimeSlots == {"10:00"}
Dates == {"2025-01-02"}
Messages == {"see you"}
Sessions == 1..NumSessions
RegSlots == 1..NumRegs

-----------------------------------------------------------------------------
(* Pure helpers *)

\* bcrypt.hash(password, 10): a salted hash, never the password itself
Hash(password) == <<"$2a$10$", password>>

NoHash == <<>>

\* bcrypt.hash / bcrypt.compare throw on a missing argument
HashThrows(password) == password = Undefined

CompareThrows(password, passwordHash) ==
  password = Undefined \/ passwordHash = NoHash

Compare(password, passwordHash) == passwordHash = Hash(password)

\* JavaScript truthiness of a string-valued body field
Truthy(v) == v # Undefined /\ v # ""

\* new Date(appointmentDate).toLocaleDateString()
LocaleDateString(date) ==
  IF date \in Dates THEN <<"locale", date>> ELSE <<"Invalid Date">>

NoMessage == [kind |-> "none", text |-> "", slot |-> "", date |-> <<>>]

DefaultMessage(timeSlot, appointmentDate) ==
  [kind |-> "default", text |-> "Your appointment has been confirmed for",
   slot |-> timeSlot, date |-> LocaleDateString(appointmentDate)]

CustomMessage(m) == [kind |-> "custom", text |-> m, slot |-> "", date |-> <<>>]

\* the message stored as supplied, the default forgotten
ConfirmationMessageAsSupplied(confirmationMessage, timeSlot, appointmentDate) ==
  IF confirmationMessage \in Messages
    THEN CustomMessage(confirmationMessage)
    ELSE NoMessage

\* confirmationMessage || `Your appointment has been confirmed for ...`
ConfirmationMessage(confirmationMessage, timeSlot, appointmentDate) ==
  IF Truthy(confirmationMessage)
    THEN CustomMessage(confirmationMessage)
    ELSE DefaultMessage(timeSlot, appointmentDate)

-----------------------------------------------------------------------------
(* Responses *)

Response(status, message) == [status |-> status, message |-> message, handled |-> TRUE]

\* an exception or rejected promise that leaves the handler: no response sent by it
Escaped == [status |-> 0, message |-> "uncaught", handled |-> FALSE]

NoResponse == [status |-> 0, message |-> "", handled |-> TRUE]

RedirectLogin == Response(302, "/doctorLogin")

\* the call of sendAppointmentConfirmationEmail made by the last request:
\* none, or the appointment and how the call ended
NoMail == [appointment |-> 0, outcome |-> "none"]

MailOutcomes == {"sent", "failed", "threw"}

-----------------------------------------------------------------------------
(* Store queries *)

EmptySession == [doctorId |-> Undefined, doctorEmail |-> Undefined]

Indexes(seq) == 1..Len(seq)

\* DoctorModel.findOne({ email }): index of the first match, 0 for null
FindDoctorByEmail(email) ==
  IF \E i \in Indexes(doctors) : doctors[i].email = email
    THEN CHOOSE i \in Indexes(doctors) :
           /\ doctors[i].email = email
           /\ \A j \in Indexes(doctors) : doctors[j].email = email => i <= j
    ELSE 0

\* DoctorModel.findOne({ doctorid }): index of the first match, 0 for null
FindDoctorById(doctorId) ==
  IF \E i \in Indexes(doctors) : doctors[i].doctorid = doctorId
    THEN CHOOSE i \in Indexes(doctors) :
           /\ doctors[i].doctorid = doctorId
           /\ \A j \in Indexes(doctors) : doctors[j].doctorid = doctorId => i <= j
    ELSE 0

\* the unique index on email of the doctor collection: create() of a second
\* document with the same email is rejected with error E11000
DuplicateKey(email) == FindDoctorByEmail(email) # 0

\* the values generateCode() can return; the generator keeps no record of the
\* codes it has handed out and the routes do not check its result
generateCode == Codes

\* a lookup that forgets the doctorid filter
FindAppointmentAnyOwner(appointmentId, doctorId) ==
  IF appointmentId \in Indexes(appts) THEN appointmentId ELSE 0

\* appointment.findOne({ _id: appointmentId, doctorid: doctorId })
FindAppointment(appointmentId, doctorId) ==
  IF appointmentId \in Indexes(appts) /\ appts[appointmentId].doctorid = doctorId
    THEN appointmentId
    ELSE 0

\* the request a handler answers: its route, its session with the doctorId
\* found in it, and the fields of its body and path the claims speak about
Request(route, s, email, password, appointmentId) ==
  [route |-> route, session |-> s,
   doctorId |-> IF s \in Sessions THEN sessions[s].doctorId ELSE Undefined,
   email |-> email, password |-> password, appointmentId |-> appointmentId]

NoRequest ==
  [route |-> "", session |-> 0, doctorId |-> Undefined, email |-> Undefined,
   password |-> Undefined, appointmentId |-> 0]

\* if (req.session && req.session.doctorId) return next();
\* req.session itself is always there when a route of the router runs: the
\* application's own middleware reads req.session.patientName before it.
isDoctorLoggedIn(s) == Truthy(sessions[s].doctorId)

-----------------------------------------------------------------------------

Init ==
  /\ doctors = <<>>
  /\ appts = <<>>
  /\ sessions = [s \in Sessions |-> EmptySession]
  /\ reg = [r \in RegSlots |-> Undefined]
  /\ req = NoRequest
  /\ res = NoResponse
  /\ mail = NoMail

-----------------------------------------------------------------------------
(* POST /register *)

\* the document both registration routes create; its status starts pending
NewDoctor(email, passwordHash, doctorid, profile) ==
  [email |-> email, passwordHash |-> passwordHash, doctorid |-> doctorid,
   status |-> "pending", profile |-> profile, profilePicture |-> Undefined]

\* first part of the handler: the body is read and findOne({ email }) awaited
RegisterFind(r, email, up) ==
  /\ reg[r] = Undefined
  /\ IF ~up
       THEN /\ res' = Response(500, "Error registering doctor: store unreachable")
            /\ req' = Request("register", 0, email, Undefined, 0)
            /\ mail' = NoMail
            /\ reg' = reg
       ELSE IF FindDoctorByEmail(email) # 0
         THEN /\ res' = Response(400, "Doctor with this email already exists")
              /\ req' = Request("register", 0, email, Undefined, 0)
              /\ mail' = NoMail
              /\ reg' = reg
         ELSE /\ reg' = [reg EXCEPT ![r] = email]
              /\ UNCHANGED <<req, res, mail>>
  /\ UNCHANGED <<doctors, appts, sessions>>

\* second part: bcrypt.hash, generateCode(), DoctorModel.create, the response.
\* The email index of the collection is unique: a second document with the
\* same email is rejected with E11000.
RegisterCreate(r, password, profile, doctorid, up) ==
  /\ reg[r] # Undefined
  /\ reg' = [reg EXCEPT ![r] = Undefined]
  /\ IF HashThrows(password)
       THEN /\ res' = Response(500, "Error registering doctor: Illegal arguments")
            /\ doctors' = doctors
       ELSE IF ~up
         THEN /\ res' = Response(500, "Error registering doctor: store unreachable")
              /\ doctors' = doctors
         ELSE IF DuplicateKey(reg[r])
           THEN /\ res' = Response(500, "Error registering doctor: E11000 duplicate key")
                /\ doctors' = doctors
           ELSE /\ doctors' = Append(doctors, NewDoctor(reg[r], Hash(password), doctorid, profile))
                /\ res' = Response(201, "Doctor registered successfully! Please wait for admin approval.")
  /\ req' = Request("register", 0, reg[r], password, 0)
  /\ mail' = NoMail
  /\ UNCHANGED <<appts, sessions>>

-----------------------------------------------------------------------------
(* POST /doctor (application entry file) *)

\* file check, upload to the media host, generateCode(), doctor.create with
\* no password hash, redirect; a duplicate email is answered 500
DoctorPost(email, profile, doctorid, hasFile, uploadOk, up) ==
  /\ IF ~hasFile
       THEN /\ res' = Response(400, "ID proof file is required")
            /\ doctors' = doctors
       ELSE IF ~uploadOk \/ ~up
         THEN /\ res' = Response(500, "Error registering doctor")
              /\ doctors' = doctors
         ELSE IF DuplicateKey(email)
           THEN /\ res' = Response(500, "Doctor with this email already exists")
                /\ doctors' = doctors
           ELSE /\ doctors' = Append(doctors, NewDoctor(email, NoHash, doctorid, profile))
                /\ res' = Response(302, "/verifyDoctor")
  /\ req' = Request("doctor", 0, email, Undefined, 0)
  /\ mail' = NoMail
  /\ UNCHANGED <<appts, sessions, reg>>

-----------------------------------------------------------------------------
(* POST /admin (application entry file) *)

AdminEmails == {"admin@gmail.com", "x@x.com"}
AdminPasswords == {"asdf", "zzzz"}

\* await admin.find() stands before the try block: its rejection leaves the
\* handler.  The credentials are compared with the two literals.
AdminLogin(email, password, up) ==
  /\ res' = IF ~up THEN Escaped
            ELSE IF email = "admin@gmail.com" /\ password = "asdf"
              THEN Response(302, "/adminPage")
              ELSE Response(200, "Invalid Email!")
  /\ req' = Request("admin", 0, email, password, 0)
  /\ mail' = NoMail
  /\ UNCHANGED <<doctors, appts, sessions, reg>>

\* admin approval of a doctor account
AdminSetStatus(i, status) ==
  /\ i \in Indexes(doctors)
  /\ doctors[i].status # status
  /\ doctors' = [doctors EXCEPT ![i].status = status]
  /\ UNCHANGED <<appts, sessions, reg, req, res, mail>>

-----------------------------------------------------------------------------
(* POST /login *)

\* a check that only turns rejected accounts away
NotRejected(d) == d.status # "rejected"

\* if (foundDoctor.status !== "approved") return 403
Approved(d) == d.status = "approved"

Login(s, email, password, up) ==
  LET i == FindDoctorByEmail(email) IN
  /\ IF ~up
       THEN /\ res' = Response(500, "Error during login: store unreachable")
            /\ sessions' = sessions
       ELSE IF i = 0
         THEN /\ res' = Response(401, "Invalid email or password")
              /\ sessions' = sessions
         ELSE IF ~Approved(doctors[i])
           THEN /\ res' = Response(403, "Your account is pending approval. Please wait for admin approval.")
                /\ sessions' = sessions
           ELSE IF CompareThrows(password, doctors[i].passwordHash)
             THEN /\ res' = Response(500, "Error during login: Illegal arguments")
                  /\ sessions' = sessions
             ELSE IF ~Compare(password, doctors[i].passwordHash)
               THEN /\ res' = Response(401, "Invalid email or password")
                    /\ sessions' = sessions
               ELSE /\ sessions' = [sessions EXCEPT ![s] =
                          [doctorId |-> doctors[i].doctorid, doctorEmail |-> doctors[i].email]]
                    /\ res' = Response(200, "Login successful")
  /\ req' = Request("login", s, email, password, 0)
  /\ mail' = NoMail
  /\ UNCHANGED <<doctors, appts, reg>>

-----------------------------------------------------------------------------
(* Patient-facing booking: a pending appointment for an existing doctor *)

NewAppointment(doctorid) ==
  [doctorid |-> doctorid, status |-> "pending", timeSlot |-> Undefined,
   appointmentDate |-> Undefined, confirmationMessage |-> NoMessage]

BookAppointment(i) ==
  /\ i \in Indexes(doctors)
  /\ Len(appts) < MaxAppts
  /\ appts' = Append(appts, NewAppointment(doctors[i].doctorid))
  /\ UNCHANGED <<doctors, sessions, reg, req, res, mail>>

-----------------------------------------------------------------------------
(* Gated routes of the doctor router *)

\* DoctorModel.findOneAndUpdate({ doctorid }, update): the first match is updated
UpdateDoctor(doctorId, field, value) ==
  LET i == FindDoctorById(doctorId) IN
  IF i = 0 THEN doctors
  ELSE IF field = "profile" THEN [doctors EXCEPT ![i].profile = value]
  ELSE [doctors EXCEPT ![i].profilePicture = value]

\* GET /dashboard
Dashboard(s, up) ==
  /\ res' = IF ~isDoctorLoggedIn(s) THEN RedirectLogin
            ELSE IF ~up THEN Response(500, "Error loading dashboard: store unreachable")
            ELSE IF FindDoctorById(sessions[s].doctorId) = 0 THEN RedirectLogin
            ELSE Response(200, "doctorDashboard")
  /\ req' = Request("dashboard", s, Undefined, Undefined, 0)
  /\ mail' = NoMail
  /\ UNCHANGED <<doctors, appts, sessions, reg>>

\* GET /profile
GetProfile(s, up) ==
  /\ res' = IF ~isDoctorLoggedIn(s) THEN RedirectLogin
            ELSE IF ~up THEN Response(500, "Error fetching profile")
            ELSE IF FindDoctorById(sessions[s].doctorId) = 0
              THEN Response(404, "Doctor not found")
            ELSE Response(200, "doctor")
  /\ req' = Request("profile", s, Undefined, Undefined, 0)
  /\ mail' = NoMail
  /\ UNCHANGED <<doctors, appts, sessions, reg>>

\* POST /profile/update
UpdateProfile(s, profile, up) ==
  /\ IF ~isDoctorLoggedIn(s)
       THEN /\ res' = RedirectLogin
            /\ doctors' = doctors
       ELSE IF ~up
         THEN /\ res' = Response(500, "Error updating profile: store unreachable")
              /\ doctors' = doctors
         ELSE /\ doctors' = UpdateDoctor(sessions[s].doctorId, "profile", profile)
              /\ res' = Response(200, "Profile updated successfully")
  /\ req' = Request("profile/update", s, Undefined, Undefined, 0)
  /\ mail' = NoMail
  /\ UNCHANGED <<appts, sessions, reg>>

\* POST /profile/picture
UploadPicture(s, hasFile, uploadOk, up) ==
  /\ IF ~isDoctorLoggedIn(s)
       THEN /\ res' = RedirectLogin
            /\ doctors' = doctors
       ELSE IF ~hasFile
         THEN /\ res' = Response(400, "No file uploaded")
              /\ doctors' = doctors
         ELSE IF ~uploadOk \/ ~up
           THEN /\ res' = Response(500, "Error uploading profile picture")
                /\ doctors' = doctors
           ELSE /\ doctors' = UpdateDoctor(sessions[s].doctorId, "profilePicture", "secure_url")
                /\ res' = Response(200, "Profile picture uploaded successfully")
  /\ req' = Request("profile/picture", s, Undefined, Undefined, 0)
  /\ mail' = NoMail
  /\ UNCHANGED <<appts, sessions, reg>>

\* GET /appointments
GetAppointments(s, up) ==
  /\ res' = IF ~isDoctorLoggedIn(s) THEN RedirectLogin
            ELSE IF ~up THEN Response(500, "Error fetching appointments")
            ELSE Response(200, "appointments")
  /\ req' = Request("appointments", s, Undefined, Undefined, 0)
  /\ mail' = NoMail
  /\ UNCHANGED <<doctors, appts, sessions, reg>>

-----------------------------------------------------------------------------
(* POST /appointments/:appointmentId/confirm *)

\* the store call of the handler that rejects, if any
ConfirmFaults == {"none", "findOne", "save"}

\* findOne by id and owner, 404 for no match, the four assignments and save,
\* then the notification, whose failure or exception is only logged

Confirm(s, appointmentId, timeSlot, appointmentDate, confirmationMessage, fault) ==
  LET a == FindAppointment(appointmentId, sessions[s].doctorId) IN
  /\ IF ~isDoctorLoggedIn(s)
       THEN /\ res' = RedirectLogin
            /\ mail' = NoMail
            /\ appts' = appts
       ELSE IF fault = "findOne"
         THEN /\ res' = Response(500, "Error confirming appointment: store unreachable")
              /\ mail' = NoMail
              /\ appts' = appts
         ELSE IF a = 0
           THEN /\ res' = Response(404, "Appointment not found")
                /\ mail' = NoMail
                /\ appts' = appts
           ELSE IF fault = "save"
             THEN /\ res' = Response(500, "Error confirming appointment: store unreachable")
                  /\ mail' = NoMail
                  /\ appts' = appts
             ELSE /\ appts' = [appts EXCEPT ![a] =
                        [@ EXCEPT !.status = "confirmed",
                                  !.timeSlot = timeSlot,
                                  !.appointmentDate = appointmentDate,
                                  !.confirmationMessage =
                                     ConfirmationMessage(confirmationMessage, timeSlot, appointmentDate)]]
                  /\ \E outcome \in MailOutcomes :
                       mail' = [appointment |-> a, outcome |-> outcome]
                  /\ res' = Response(200, "Appointment confirmed successfully. Patient will be notified.")
  /\ req' = Request("confirm", s, Undefined, Undefined, appointmentId)
  /\ UNCHANGED <<doctors, sessions, reg>>

-----------------------------------------------------------------------------
(* POST /logout *)

\* a destroy that leaves the session record in the store
KeepSession(session, err) == session

\* req.session.destroy(cb): the session record is removed unless the store fails
DestroySession(session, err) == IF err THEN session ELSE EmptySession

\* if (err) throw err; in place of the 500 answer
LogoutResponseThrowing(err) ==
  IF err THEN Escaped ELSE Response(200, "Logged out successfully")

\* if (err) return 500; otherwise the success answer
LogoutResponse(err) ==
  IF err THEN Response(500, "Error logging out")
  ELSE Response(200, "Logged out successfully")

Logout(s, err) ==
  /\ sessions' = [sessions EXCEPT ![s] = DestroySession(sessions[s], err)]
  /\ res' = LogoutResponse(err)
  /\ req' = Request("logout", s, Undefined, Undefined, 0)
  /\ mail' = NoMail
  /\ UNCHANGED <<doctors, appts, reg>>

-----------------------------------------------------------------------------

AppointmentIds == 1..(MaxAppts + 1)

Registration ==
  \/ \E r \in RegSlots, email \in Emails, up \in BOOLEAN : RegisterFind(r, email, up)
  \/ \E r \in RegSlots, password \in Passwords \cup {Undefined}, profile \in Profiles,
        doctorid \in generateCode, up \in BOOLEAN :
       RegisterCreate(r, password, profile, doctorid, up)
  \/ \E email \in Emails, profile \in Profiles, doctorid \in generateCode,
        hasFile \in BOOLEAN, uploadOk \in BOOLEAN, up \in BOOLEAN :
       DoctorPost(email, profile, doctorid, hasFile, uploadOk, up)

Admin ==
  \E email \in AdminEmails, password \in AdminPasswords, up \in BOOLEAN :
    AdminLogin(email, password, up)

Approval ==
  \E i \in Indexes(doctors), status \in {"approved", "rejected"} : AdminSetStatus(i, status)

SessionRoutes ==
  \/ \E s \in Sessions, email \in LoginEmails, password \in Passwords \cup {Undefined},
        up \in BOOLEAN :
       Login(s, email, password, up)
  \/ \E s \in Sessions, err \in BOOLEAN : Logout(s, err)

Booking == \E i \in Indexes(doctors) : BookAppointment(i)

Confirmation ==
  \E s \in Sessions, appointmentId \in AppointmentIds,
     timeSlot \in TimeSlots, appointmentDate \in Dates \cup {Undefined},
     confirmationMessage \in Messages \cup {Undefined, ""}, fault \in ConfirmFaults :
    Confirm(s, appointmentId, timeSlot, appointmentDate, confirmationMessage, fault)

GatedRoutes ==
  \/ \E s \in Sessions, up \in BOOLEAN : Dashboard(s, up)
  \/ \E s \in Sessions, up \in BOOLEAN : GetProfile(s, up)
  \/ \E s \in Sessions, profile \in Profiles, up \in BOOLEAN : UpdateProfile(s, profile, up)
  \/ \E s \in Sessions, hasFile \in BOOLEAN, uploadOk \in BOOLEAN, up \in BOOLEAN :
       UploadPicture(s, hasFile, uploadOk, up)
  \/ \E s \in Sessions, up \in BOOLEAN : GetAppointments(s, up)

-----------------------------------------------------------------------------
(* Collections the registration routes produce (see SpecRegister): one     *)
(* document per email, any generated code, a hash from POST /register or   *)
(* none from POST /doctor.                                                 *)

RegisteredDoctors ==
  { <<NewDoctor("a@x.com", h1, c1, "A"), NewDoctor("b@x.com", h2, c2, "A")>> :
      <<h1, h2>> \in ({Hash(p) : p \in Passwords} \cup {NoHash})
                     \X ({Hash(p) : p \in Passwords} \cup {NoHash}),
      <<c1, c2>> \in Codes \X Codes }

\* Two approved doctors; the second one's code is the first one's or another
\* (the names of the codes do not matter, so the first one's is fixed).
ApprovedDoctors ==
  { <<[NewDoctor("a@x.com", Hash("p"), "D1", "A") EXCEPT !.status = "approved"],
      [NewDoctor("b@x.com", Hash("q"), c, "A") EXCEPT !.status = "approved"]>> :
      c \in Codes }

Rest ==
  /\ sessions = [s \in Sessions |-> EmptySession]
  /\ reg = [r \in RegSlots |-> Undefined]
  /\ req = NoRequest
  /\ res = NoResponse
  /\ mail = NoMail

InitRegistered == doctors \in RegisteredDoctors /\ appts = <<>> /\ Rest

InitApproved == doctors \in ApprovedDoctors /\ appts = <<>> /\ Rest

\* the first doctor has one appointment booked and waiting
InitBooked ==
  /\ doctors \in ApprovedDoctors
  /\ appts = <<NewAppointment(doctors[1].doctorid)>>
  /\ Rest

NextRegister == Registration \/ Admin

NextLogin == Approval \/ SessionRoutes

NextGate == GatedRoutes \/ Confirmation \/ SessionRoutes

NextConfirm == SessionRoutes \/ Booking \/ Confirmation

SpecRegister == Init /\ [][NextRegister]_vars

SpecLogin == InitRegistered /\ [][NextLogin]_vars

SpecGate == InitBooked /\ [][NextGate]_vars

SpecConfirm == InitApproved /\ [][NextConfirm]_vars

-----------------------------------------------------------------------------
(* Properties of the confirm route, checked under SpecConfirm *)

ConfirmBodies == TimeSlots \X (Dates \cup {Undefined}) \X (Messages \cup {Undefined, ""})

Owned(s, appointmentId) ==
  /\ appointmentId \in Indexes(appts)
  /\ appts[appointmentId].doctorid = sessions[s].doctorId

ConfirmedAnswer ==
  Response(200, "Appointment confirmed successfully. Patient will be notified.")

C2_ConfirmSurvivesNotification ==
  [][req'.route = "confirm" =>
       LET s == req'.session
           id == req'.appointmentId
       IN (isDoctorLoggedIn(s) /\ Owned(s, id) /\ appts[id].status = "pending") =>
          \A b \in ConfirmBodies :
            Confirm(s, id, b[1], b[2], b[3], "none")
            => /\ mail'.outcome \in MailOutcomes
               /\ appts'[id].status = "confirmed"
               /\ appts'[id].confirmationMessage =
                    IF b[3] \in Messages
                      THEN CustomMessage(b[3])
                      ELSE DefaultMessage(b[1], b[2])
               /\ res' = ConfirmedAnswer]_vars

\* the notification threw, the appointment is stored confirmed with the
\* default message and the answer is the success answer
C2_Witness ==
  /\ req.route = "confirm"
  /\ mail.outcome = "threw"
  /\ mail.appointment = req.appointmentId
  /\ appts[req.appointmentId].status = "confirmed"
  /\ appts[req.appointmentId].confirmationMessage.kind = "default"
  /\ res = ConfirmedAnswer

\* C9: the status of an appointment only moves from pending to confirmed, and
\* a confirmed appointment is never written again: its time slot, date and
\* message stay as the first confirm wrote them.
C9_MutatedExactlyOnce ==
  [][\A a \in Indexes(appts) :
       /\ \/ appts'[a].status = appts[a].status
          \/ appts[a].status = "pending" /\ appts'[a].status = "confirmed"
       /\ appts[a].status = "confirmed" => appts'[a] = appts[a]]_vars

-----------------------------------------------------------------------------
(* Properties of login, checked under SpecLogin *)

\* C3: a login for a doctor whose status is pending or rejected is answered
\* with an error and leaves every session as it was, whatever the password.
C3_NoSessionUnlessApproved ==
  [][req'.route = "login" =>
       LET s == req'.session
           email == req'.email
           password == req'.password
       IN \A up \in BOOLEAN :
            (/\ \E i \in Indexes(doctors) :
                  doctors[i].email = email /\ doctors[i].status # "approved"
             /\ Login(s, email, password, up))
            => /\ res'.status >= 400
               /\ sessions' = sessions]_vars

\* a rejected doctor gave the right password and was answered 403, with no
\* doctorId in the session
C3_Witness ==
  /\ req.route = "login"
  /\ \E i \in Indexes(doctors) :
       /\ doctors[i].email = req.email
       /\ doctors[i].status = "rejected"
       /\ doctors[i].passwordHash = Hash(req.password)
  /\ res.status = 403
  /\ sessions[req.session] = EmptySession

-----------------------------------------------------------------------------
(* Properties of the gate and of logout, checked under SpecGate *)

JsonRoutes == {"profile", "profile/update", "profile/picture", "appointments", "confirm"}

ProtectedRoutes == JsonRoutes \cup {"dashboard", "logout"}

\* a step of a route behind isDoctorLoggedIn, made on session s
GatedStep(s) ==
  \/ \E up \in BOOLEAN : Dashboard(s, up) \/ GetProfile(s, up) \/ GetAppointments(s, up)
  \/ \E profile \in Profiles, up \in BOOLEAN : UpdateProfile(s, profile, up)
  \/ \E hasFile \in BOOLEAN, uploadOk \in BOOLEAN, up \in BOOLEAN :
       UploadPicture(s, hasFile, uploadOk, up)
  \/ \E id \in AppointmentIds, b \in ConfirmBodies, fault \in ConfirmFaults :
       Confirm(s, id, b[1], b[2], b[3], fault)

\* C6: a request to a protected doctor route whose session holds no doctor
\* identifier is refused: the dashboard by a redirect to /doctorLogin, every
\* other protected route (logout included) by a 401 or 403 answer.
C6_GateAnswers ==
  (req.route \in ProtectedRoutes /\ ~Truthy(req.doctorId))
  => IF req.route = "dashboard"
       THEN res = RedirectLogin
       ELSE res.status \in {401, 403}

\* C8: a logout on a session that holds no doctor identifier ends in one of
\* the two answers of the handler, sent by the handler, and changes no doctor
\* and no appointment.
C8_LogoutWithoutSession ==
  [][req'.route = "logout" =>
       LET s == req'.session
       IN \A err \in BOOLEAN :
            (~isDoctorLoggedIn(s) /\ Logout(s, err))
            => /\ res'.handled
               /\ res' \in {Response(200, "Logged out successfully"),
                            Response(500, "Error logging out")}
               /\ doctors' = doctors
               /\ appts' = appts]_vars

\* the store failed to destroy a session that held no doctor identifier and
\* the handler answered 500
C8_Witness ==
  /\ req.route = "logout"
  /\ ~Truthy(req.doctorId)
  /\ res = Response(500, "Error logging out")

\* C10: a logout the store completes answers success and leaves the session
\* without doctor identifier; a logout the store fails answers 500; a session
\* without doctor identifier gets one only by a successful login; and while
\* it has none, every gated route answers the redirect of the gate and
\* changes no doctor and no appointment.
C10_LogoutEndsAccess ==
  [][\A s \in Sessions :
       /\ Logout(s, FALSE) =>
            res' = Response(200, "Logged out successfully") /\ ~isDoctorLoggedIn(s)'
       /\ Logout(s, TRUE) => res' = Response(500, "Error logging out")
       /\ (~isDoctorLoggedIn(s) /\ isDoctorLoggedIn(s)') =>
            /\ req'.route = "login" /\ req'.session = s
            /\ res' = Response(200, "Login successful")
       /\ (~isDoctorLoggedIn(s) /\ req'.route \in JsonRoutes \cup {"dashboard"}
             /\ GatedStep(s)) =>
            /\ res' = RedirectLogin
            /\ doctors' = doctors
            /\ appts' = appts]_vars

\* a logged-in doctor logged out, was answered success, and the session no
\* longer holds a doctor identifier
C10_Witness ==
  /\ req.route = "logout"
  /\ Truthy(req.doctorId)
  /\ res = Response(200, "Logged out successfully")
  /\ ~isDoctorLoggedIn(req.session)

-----------------------------------------------------------------------------
(* Properties of registration and of the admin login, checked under        *)
(* SpecRegister                                                            *)

EmailPresent(email) == \E i \in Indexes(doctors) : doctors[i].email = email

\* C4: a registration request that completes while its email is already in
\* the collection is answered 400 "Doctor with this email already exists"
\* and creates nothing, also when another request with the same email was
\* interleaved with it; and no two documents share an email.
C4_DuplicateEmailConflict ==
  [][req'.route = "register" =>
       /\ \A r \in RegSlots, email \in Emails :
            (EmailPresent(email) /\ RegisterFind(r, email, TRUE))
            => /\ res' = Response(400, "Doctor with this email already exists")
               /\ doctors' = doctors
       /\ \A r \in RegSlots, password \in Passwords, profile \in Profiles,
             doctorid \in generateCode :
            (/\ reg[r] # Undefined
             /\ EmailPresent(reg[r])
             /\ RegisterCreate(r, password, profile, doctorid, TRUE))
            => /\ res' = Response(400, "Doctor with this email already exists")
               /\ doctors' = doctors
       /\ \A i, j \in Indexes(doctors') :
            doctors'[i].email = doctors'[j].email => i = j]_vars

\* C5: no two stored doctors share a generated doctorid.
C5_DoctorIdsUnique ==
  \A i, j \in Indexes(doctors) : doctors[i].doctorid = doctors[j].doctorid => i = j

\* C7: every request ends in a response sent by its own handler; no
\* exception or rejected promise leaves a handler.
C7_NothingEscapes == res.handled

====
